---- MODULE Spec2Model ----
(***************************************************************************)
(* Model of polars_utils: map_col (src/mappings/map_col.py) and move_col   *)
(* (src/mappings/move_col.py).  Both take a dataframe and return a frame,  *)
(* an error, or (map_col's fall-through) None.  A frame is an ordered list *)
(* of distinct column names plus one value vector per name.  The polars    *)
(* primitives the code delegates to (with_columns, select, map_dict,       *)
(* apply, map_elements, struct) are modelled by their library semantics at *)
(* the call sites; Python's list.pop / list.insert / dict comprehension    *)
(* are modelled by the language semantics.                                 *)
(***************************************************************************)
EXTENDS Integers, Sequences, FiniteSets, TLC

VARIABLES df, call, result, prev

vars == <<df, call, result, prev>>

(* ---------------------------- bounds ---------------------------------- *)
MaxCols == 4        \* columns of an input frame
MaxRows == 2        \* rows of an input frame
MaxVal == 1         \* cell values are 0..MaxVal
MaxTargets == 2     \* length of a map_to / map_from list

NameOrder == <<"a", "b", "c", "d", "e", "f", "g">>
Names == {NameOrder[i] : i \in 1..(MaxCols + 1)}
Values == 0..MaxVal
Null == -1          \* polars null / Python None as a cell value
Indices == (0 - (MaxCols + 1))..(MaxCols + 1)

(* ---------------------------- sequences ------------------------------- *)
Range(s) == {s[i] : i \in 1..Len(s)}

SeqsUpTo(S, n) == UNION {[1..m -> S] : m \in 0..n}

IsInjective(s) == \A i, j \in 1..Len(s) : s[i] = s[j] => i = j

\* position (1-based) of the first occurrence of x in s, 0 when absent
IndexOf(s, x) == IF x \in Range(s) THEN CHOOSE i \in 1..Len(s) : s[i] = x /\ \A j \in 1..(i - 1) : s[j] # x ELSE 0

\* position (1-based) of the last occurrence of x in s
LastIndexOf(s, x) == CHOOSE i \in 1..Len(s) : s[i] = x /\ \A j \in (i + 1)..Len(s) : s[j] # x

(* ---------------------------- frames ---------------------------------- *)
EmptyData == [c \in {} |-> <<>>]

NoFrame == [columns |-> <<>>, data |-> EmptyData]

Height(d) == IF d.columns = <<>> THEN 0 ELSE Len(d.data[d.columns[1]])

\* the input frames: k columns named in NameOrder's order, n rows
InitFrame(k, vals) == [columns |-> SubSeq(NameOrder, 1, k), data |-> [c \in {NameOrder[j] : j \in 1..k} |-> [i \in 1..Len(vals) |-> (vals[i] + IndexOf(NameOrder, c) - 1) % (MaxVal + 1)]]]

Frames == {InitFrame(k, vals) : k \in 1..MaxCols, vals \in SeqsUpTo(Values, MaxRows)} \cup {NoFrame}

(* ---------------------------- outcomes -------------------------------- *)
Returned(f) == [kind |-> "frame", frame |-> f, error |-> ""]

Raised(e) == [kind |-> "error", frame |-> NoFrame, error |-> e]

ReturnedNone == [kind |-> "none", frame |-> NoFrame, error |-> ""]

NotCalled == [kind |-> "idle", frame |-> NoFrame, error |-> ""]

(* ---------------------------- Python lists ---------------------------- *)
\* list.pop(i) is defined for -len <= i < len; a negative i counts from the end
PopInRange(s, i) == (0 - Len(s)) <= i /\ i < Len(s)

PopIndex(s, i) == IF i < 0 THEN i + Len(s) ELSE i

\* the element list.pop(i) returns
PyPopped(s, i) == s[PopIndex(s, i) + 1]

\* the list left by list.pop(i)
PyPop(s, i) == SubSeq(s, 1, PopIndex(s, i)) \o SubSeq(s, PopIndex(s, i) + 2, Len(s))

\* list.insert(j, x): a negative j counts from the end, and j is clamped to 0..len
InsertIndex(s, j) == IF j < 0 THEN (IF j + Len(s) < 0 THEN 0 ELSE j + Len(s)) ELSE (IF j > Len(s) THEN Len(s) ELSE j)

PyInsertAfter(s, j, x) == SubSeq(s, 1, InsertIndex(s, j + 1)) \o <<x>> \o SubSeq(s, InsertIndex(s, j + 1) + 1, Len(s))

PyInsert(s, j, x) == SubSeq(s, 1, InsertIndex(s, j)) \o <<x>> \o SubSeq(s, InsertIndex(s, j) + 1, Len(s))

(* ---------------------------- polars ---------------------------------- *)
\* DataFrame.columns: a fresh list of the column names
DfColumns(d) == d.columns

\* DataFrame.select(columns): the named columns in the given order
Select(d, cols) == [columns |-> cols, data |-> [c \in Range(cols) |-> d.data[c]]]

\* DataFrame.with_columns of one named column: replaces a column of that
\* name where it stands, appends a new one at the end
WithColumn(d, name, values) == [columns |-> IF name \in Range(d.columns) THEN d.columns ELSE Append(d.columns, name), data |-> [c \in Range(d.columns) \cup {name} |-> IF c = name THEN values ELSE d.data[c]]]

(* ---------------------------- move_col -------------------------------- *)
MoveColOrderOrig(cols, from, to) == PyInsert(PyPop(cols, from), IF from < to THEN to - 1 ELSE to, PyPopped(cols, from))

\* lines 17-18: columns.pop(col_from_id); columns.insert(col_to_id, last_col)
MoveColOrder(cols, from, to) == PyInsert(PyPop(cols, from), to, PyPopped(cols, from))

MoveColResult(d, from, to) == IF ~PopInRange(DfColumns(d), from) THEN Raised("IndexError") ELSE Returned(Select(d, MoveColOrder(DfColumns(d), from, to)))

InputAfterMoveColAliased(d, from, to) == IF PopInRange(d.columns, from) THEN [d EXCEPT !.columns = MoveColOrder(d.columns, from, to)] ELSE d

\* the caller's frame after move_col: pop and insert act on the list that
\* df.columns returned, select builds a new frame
InputAfterMoveCol(d, from, to) == d

(* ---------------------------- map_col --------------------------------- *)
\* the shapes of a map_from / map_to argument: a name, a list of names, or
\* anything else (None, a tuple, a number)
Str(n) == [kind |-> "str", names |-> <<n>>]

List(ns) == [kind |-> "list", names |-> ns]

OtherArg == [kind |-> "other", names |-> <<>>]

\* the kinds of a mapping argument
Dict(D) == [kind |-> "dict", table |-> D]

Callable(f) == [kind |-> "callable", table |-> f]

OtherRule == [kind |-> "other", table |-> <<>>]

DictGetNoDefault(D, v, default) == IF v \in DOMAIN D THEN D[v] ELSE Null

\* Expr.map_dict(dictionary, default=default) on one value
DictGet(D, v, default) == IF v \in DOMAIN D THEN D[v] ELSE default

\* lines 102-104
MapColDict(d, col_name, new_col_name, dictionary, default) == IF col_name \notin Range(d.columns) THEN Raised("ColumnNotFoundError") ELSE Returned(WithColumn(d, new_col_name, [r \in 1..Height(d) |-> DictGet(dictionary, d.data[col_name][r], default)]))

\* lines 126-128
Map1to1Function(d, col_name, new_col_name, function) == IF col_name \notin Range(d.columns) THEN Raised("ColumnNotFoundError") ELSE Returned(WithColumn(d, new_col_name, [r \in 1..Height(d) |-> function[d.data[col_name][r]]]))

\* the keys of the dict comprehension of line 151, in insertion order: a
\* repeated key keeps the place of its first occurrence
RECURSIVE DictKeys(_)
DictKeys(s) == IF s = <<>> THEN <<>> ELSE LET front == DictKeys(SubSeq(s, 1, Len(s) - 1)) IN IF s[Len(s)] \in Range(front) THEN front ELSE Append(front, s[Len(s)])

NewColumnValuesFirstWins(new_col_names, results, name) == [r \in 1..Len(results) |-> results[r][IndexOf(new_col_names, name)]]

\* the value the dict comprehension of line 151 holds for a key: that of
\* the key's last occurrence in new_col_names
NewColumnValues(new_col_names, results, name) == [r \in 1..Len(results) |-> results[r][LastIndexOf(new_col_names, name)]]

\* res[i] of line 151 raises IndexError when a result is shorter than i + 1
ResultTooShort(new_col_names, results) == \E r \in 1..Len(results) : Len(results[r]) < Len(new_col_names)

\* line 153: with_columns of the Series built from new_columns.items()
RECURSIVE WithSeries(_, _, _, _)
WithSeries(d, keys, new_col_names, results) == IF keys = <<>> THEN d ELSE WithSeries(WithColumn(d, Head(keys), NewColumnValues(new_col_names, results, Head(keys))), Tail(keys), new_col_names, results)

\* lines 150-153
Map1toNFunction(d, col_name, new_col_names, function) == IF col_name \notin Range(d.columns) THEN Raised("ColumnNotFoundError") ELSE LET results == [r \in 1..Height(d) |-> function[d.data[col_name][r]]] IN IF ResultTooShort(new_col_names, results) THEN Raised("IndexError") ELSE Returned(WithSeries(d, DictKeys(new_col_names), new_col_names, results))

\* lines 175-177: the function is applied to the struct of the row's values
\* of col_names
MapNto1Function(d, col_names, new_col_name, function) == IF ~(Range(col_names) \subseteq Range(d.columns)) THEN Raised("ColumnNotFoundError") ELSE Returned(WithColumn(d, new_col_name, [r \in 1..Height(d) |-> function[[j \in 1..Len(col_names) |-> d.data[col_names[j]][r]]]]))

MapNtoMReturnsInput(d, col_names, new_col_names, function) == Returned(d)

\* line 199
MapNtoMFunction(d, col_names, new_col_names, function) == Raised("NotImplementedError")

MapColListsFirst(d, map_from, map_to, mapping, default) == IF map_from.kind = "list" /\ map_to.kind = "list" THEN Raised("NotImplementedError") ELSE IF mapping.kind = "dict" /\ map_from.kind = "list" THEN Raised("ValueError") ELSE ReturnedNone

\* lines 47-78: the dispatch; a combination no branch matches falls off the
\* end of the function, which returns None
MapColResult(d, map_from, map_to, mapping, default) ==
    IF mapping.kind = "dict" THEN
        IF map_from.kind = "list" THEN Raised("ValueError")
        ELSE MapColDict(d, map_from.names[1], map_to.names[1], mapping.table, default)
    ELSE IF mapping.kind = "callable" THEN
        IF map_from.kind = "str" THEN
            IF map_to.kind = "str" THEN Map1to1Function(d, map_from.names[1], map_to.names[1], mapping.table)
            ELSE IF map_to.kind = "list" THEN Map1toNFunction(d, map_from.names[1], map_to.names, mapping.table)
            ELSE ReturnedNone
        ELSE IF map_from.kind = "list" THEN
            IF map_to.kind = "str" THEN MapNto1Function(d, map_from.names, map_to.names[1], mapping.table)
            ELSE IF map_to.kind = "list" THEN MapNtoMFunction(d, map_from.names, map_to.names, mapping.table)
            ELSE ReturnedNone
        ELSE ReturnedNone
    ELSE ReturnedNone

\* the caller's frame after map_col: with_columns returns a new frame
InputAfterMapCol(d, map_from, map_to, mapping, default) == d

(* ---------------------------- inputs ---------------------------------- *)
\* names used as sources and in lists: two that input frames have, one none has
ShortNames == {NameOrder[1], NameOrder[2], NameOrder[MaxCols + 1]}

NameLists == SeqsUpTo(ShortNames, MaxTargets)

\* one list of each length
FixedLists == {SubSeq(NameOrder, 1, m) : m \in 0..MaxTargets}

\* one argument of each shape: names, lists of each length, something else
ArgShapes == {Str(n) : n \in ShortNames} \cup {List(l) : l \in FixedLists} \cup {OtherArg}

Dicts == UNION {[K -> Values] : K \in SUBSET Values}

Defaults == Values \cup {Null}

\* a function's result at position i for input v; distinct for distinct (v, i)
Res(v, i) == v + (MaxVal + 1) * i

\* the 1->N functions: for each value, a result of some length near n
SeqFns(n) == {[v \in Values |-> [i \in 1..len[v] |-> Res(v, i)]] : len \in [Values -> {m \in {n - 1, n, n + 1} : m >= 0}]}

Tuples == SeqsUpTo(Values, MaxTargets)

RECURSIVE Sum(_)
Sum(t) == IF t = <<>> THEN 0 ELSE Head(t) + Sum(Tail(t))

\* the N->1 functions: the sum of the fields, the first field, the last field
StructFns == {[t \in Tuples |-> Sum(t)], [t \in Tuples |-> IF t = <<>> THEN Null ELSE t[1]], [t \in Tuples |-> IF t = <<>> THEN Null ELSE t[Len(t)]]}

AnyFn == [v \in Values |-> v]

NoCall == [op |-> "none"]

MapColCall(map_from, map_to, mapping, default) == [op |-> "map_col", map_from |-> map_from, map_to |-> map_to, mapping |-> mapping, default |-> default]

\* one call of map_col on the caller's frame
MapCol(map_from, map_to, mapping, default) ==
    /\ call' = MapColCall(map_from, map_to, mapping, default)
    /\ result' = MapColResult(df, map_from, map_to, mapping, default)
    /\ df' = InputAfterMapCol(df, map_from, map_to, mapping, default)
    /\ UNCHANGED prev

CallDict ==
    /\ result.kind = "idle"
    /\ \E from \in ShortNames, to \in Names, D \in Dicts, default \in Defaults :
        MapCol(Str(from), Str(to), Dict(D), default)

CallDictListFrom ==
    /\ result.kind = "idle"
    /\ \E from \in NameLists, to \in ArgShapes, D \in {[v \in {} |-> 0], [v \in Values |-> v]} :
        MapCol(List(from), to, Dict(D), Null)

Call1to1 ==
    /\ result.kind = "idle"
    /\ \E from \in ShortNames, to \in Names, f \in [Values -> Values] :
        MapCol(Str(from), Str(to), Callable(f), Null)

Call1toN ==
    /\ result.kind = "idle"
    /\ \E from \in ShortNames, to \in NameLists :
        \E f \in SeqFns(Len(to)) :
            MapCol(Str(from), List(to), Callable(f), Null)

CallNto1 ==
    /\ result.kind = "idle"
    /\ \E from \in {l \in NameLists : l # <<>> /\ IsInjective(l)}, to \in Names, f \in StructFns :
        MapCol(List(from), Str(to), Callable(f), Null)

CallNtoM ==
    /\ result.kind = "idle"
    /\ \E from \in NameLists, to \in FixedLists, f \in {AnyFn} \cup StructFns :
        MapCol(List(from), List(to), Callable(f), Null)

\* the combinations no branch of the dispatch matches
CallUnmatched ==
    /\ result.kind = "idle"
    /\ \E from \in ArgShapes, to \in ArgShapes, mapping \in {OtherRule, Callable(AnyFn)} :
        /\ mapping.kind = "callable" => (from.kind = "other" \/ to.kind = "other")
        /\ MapCol(from, to, mapping, Null)

(* ---------------------------- move_col calls -------------------------- *)
MoveCol ==
    /\ result.kind = "idle"
    /\ \E from \in Indices, to \in Indices :
        /\ call' = [op |-> "move_col", from |-> from, to |-> to]
        /\ result' = MoveColResult(df, from, to)
        /\ df' = InputAfterMoveCol(df, from, to)
        /\ UNCHANGED prev

(* ---------------------------- the caller ------------------------------ *)
NoPrev == [df |-> NoFrame, call |-> NoCall]

\* the caller drops the outcome of the call and keeps its frame
Discard ==
    /\ result.kind # "idle"
    /\ call' = NoCall
    /\ result' = NotCalled
    /\ UNCHANGED <<df, prev>>

\* the caller passes the frame move_col returned to its next call, once
Rebind ==
    /\ result.kind = "frame"
    /\ call.op = "move_col"
    /\ prev = NoPrev
    /\ prev' = [df |-> df, call |-> call]
    /\ df' = result.frame
    /\ call' = NoCall
    /\ result' = NotCalled

Init ==
    /\ df \in Frames
    /\ call = NoCall
    /\ result = NotCalled
    /\ prev = NoPrev

Next ==
    \/ CallDict
    \/ CallDictListFrom
    \/ Call1to1
    \/ Call1toN
    \/ CallNto1
    \/ CallNtoM
    \/ CallUnmatched
    \/ MoveCol
    \/ Discard

Spec == Init /\ [][Next]_vars

NextChain ==
    \/ MoveCol
    \/ Rebind
    \/ Discard

SpecChain == Init /\ [][NextChain]_vars

(* ======================== properties ================================== *)
Remove(s, x) == SelectSeq(s, LAMBDA e : e # x)

SameRows(f) == \A c \in Range(f.columns) : Len(f.data[c]) = Height(df)

OthersUnchanged(f, name) == \A c \in Range(df.columns) \ {name} : c \in Range(f.columns) /\ f.data[c] = df.data[c]

DictModeCase ==
    /\ call.op = "map_col"
    /\ call.mapping.kind = "dict"
    /\ call.map_from.kind = "str"
    /\ call.map_to.kind = "str"
    /\ call.map_from.names[1] \in Range(df.columns)

DictLookups(f) ==
    LET a == call.map_from.names[1]
        b == call.map_to.names[1]
        D == call.mapping.table
    IN  \A i \in 1..Height(df) : f.data[b][i] = IF df.data[a][i] \in DOMAIN D THEN D[df.data[a][i]] ELSE call.default

\* C1 as stated: dictionary mode returns a frame whose column b holds
\* D[a[i]] or the default at every row, with F's row count, the other
\* columns unchanged and in the same order, and b standing at the end of the
\* column order whether it was added or overwritten.
C1_DictModeTargetAtEnd ==
    DictModeCase =>
        /\ result.kind = "frame"
        /\ DictLookups(result.frame)
        /\ SameRows(result.frame)
        /\ OthersUnchanged(result.frame, call.map_to.names[1])
        /\ result.frame.columns = Append(Remove(df.columns, call.map_to.names[1]), call.map_to.names[1])

\* C1 amended: dictionary mode returns a frame whose column b holds D[a[i]]
\* or the default at every row, with F's row count and the other columns
\* unchanged and in the same order; b is appended at the end when F has no
\* column b and replaces column b where it stands when F has one.
C1_DictMode ==
    DictModeCase =>
        /\ result.kind = "frame"
        /\ DictLookups(result.frame)
        /\ SameRows(result.frame)
        /\ OthersUnchanged(result.frame, call.map_to.names[1])
        /\ Remove(result.frame.columns, call.map_to.names[1]) = Remove(df.columns, call.map_to.names[1])
        /\ result.frame.columns = IF call.map_to.names[1] \in Range(df.columns) THEN df.columns ELSE Append(df.columns, call.map_to.names[1])

C1_Witness ==
    /\ DictModeCase
    /\ result.kind = "frame"
    /\ Len(df.columns) >= 3
    /\ call.map_to.names[1] = df.columns[1]
    /\ call.map_from.names[1] = df.columns[2]
    /\ call.default \in Values
    /\ \E i, j \in 1..Height(df) : df.data[df.columns[2]][i] \in DOMAIN call.mapping.table /\ df.data[df.columns[2]][j] \notin DOMAIN call.mapping.table

\* C2: a dictionary rule with a list as map_from raises ValueError and
\* returns no frame, whatever map_to is and whatever the list's length; the
\* NotImplemented path is never reached.
C2_DictListRaisesValueError ==
    (call.op = "map_col" /\ call.mapping.kind = "dict" /\ call.map_from.kind = "list") =>
        result = Raised("ValueError")

C2_Witness ==
    /\ call.op = "map_col"
    /\ call.mapping.kind = "dict"
    /\ call.map_from.kind = "list"
    /\ call.map_to.kind = "list"
    /\ Len(call.map_from.names) = 2
    /\ Range(call.map_from.names) \subseteq Range(df.columns)
    /\ result.error = "ValueError"

\* C3: a callable rule with lists as both map_from and map_to raises
\* NotImplementedError and returns no frame, for every pair of list lengths,
\* frame and function.
C3_NtoMRaisesNotImplemented ==
    (call.op = "map_col" /\ call.mapping.kind = "callable" /\ call.map_from.kind = "list" /\ call.map_to.kind = "list") =>
        result = Raised("NotImplementedError")

C3_Witness ==
    /\ call.op = "map_col"
    /\ call.mapping.kind = "callable"
    /\ call.map_from.kind = "list"
    /\ call.map_to.kind = "list"
    /\ Len(call.map_from.names) = 1
    /\ Len(call.map_to.names) = 2
    /\ Range(call.map_from.names) \subseteq Range(df.columns)
    /\ Height(df) >= 1
    /\ result.error = "NotImplementedError"

Unmatched ==
    /\ call.op = "map_col"
    /\ \/ call.mapping.kind \notin {"dict", "callable"}
       \/ call.mapping.kind = "callable" /\ (call.map_from.kind \notin {"str", "list"} \/ call.map_to.kind \notin {"str", "list"})

\* C4: an argument combination that matches none of the modes raises
\* ValueError (InvalidArgument), and map_col never completes normally
\* without returning a frame.
C4_UnmatchedRaises ==
    /\ Unmatched => (result.kind = "error" /\ result.error = "ValueError")
    /\ call.op = "map_col" => result.kind \in {"frame", "error"}

OneToNCase ==
    /\ call.op = "map_col"
    /\ call.mapping.kind = "callable"
    /\ call.map_from.kind = "str"
    /\ call.map_to.kind = "list"
    /\ call.map_from.names[1] \in Range(df.columns)

OneToNResult(r) == call.mapping.table[df.data[call.map_from.names[1]][r]]

\* C5: in 1->N mode a function result whose length is not exactly N, on any
\* row, makes the call fail and return no frame (no truncation, no
\* padding); when every result has length N, target column i holds
\* result[i] of each row, in row order.
C5_WrongLengthFails ==
    OneToNCase =>
        /\ (\E r \in 1..Height(df) : Len(OneToNResult(r)) # Len(call.map_to.names)) => result.kind = "error"
        /\ ((\A r \in 1..Height(df) : Len(OneToNResult(r)) = Len(call.map_to.names)) /\ IsInjective(call.map_to.names)) =>
              /\ result.kind = "frame"
              /\ \A i \in 1..Len(call.map_to.names) : \A r \in 1..Height(df) : result.frame.data[call.map_to.names[i]][r] = OneToNResult(r)[i]

InRange(i, f) == 0 <= i /\ i < Len(f.columns)

InRangeMove ==
    /\ call.op = "move_col"
    /\ InRange(call.from, df)
    /\ InRange(call.to, df)

\* C6: with both indices in range, move_col returns the frame whose column
\* order is the input's with the name at from removed and reinserted at to:
\* the moved column stands at position to, the other columns keep their
\* relative order, the order is a permutation of the input's and the data of
\* every column is the input's.  On [a,b,c,d], (0,2) gives [b,c,a,d] and
\* (3,0) gives [d,a,b,c].
C6_MoveOrder ==
    InRangeMove =>
        /\ result.kind = "frame"
        /\ result.frame.columns[call.to + 1] = df.columns[call.from + 1]
        /\ Remove(result.frame.columns, df.columns[call.from + 1]) = Remove(df.columns, df.columns[call.from + 1])
        /\ Len(result.frame.columns) = Len(df.columns)
        /\ Range(result.frame.columns) = Range(df.columns)
        /\ result.frame.data = df.data
        /\ (df.columns = <<"a", "b", "c", "d">> /\ call.from = 0 /\ call.to = 2) => result.frame.columns = <<"b", "c", "a", "d">>
        /\ (df.columns = <<"a", "b", "c", "d">> /\ call.from = 3 /\ call.to = 0) => result.frame.columns = <<"d", "a", "b", "c">>

C6_Witness ==
    /\ InRangeMove
    /\ df.columns = <<"a", "b", "c", "d">>
    /\ call.from = 0
    /\ call.to = 2
    /\ Height(df) = 2
    /\ result.kind = "frame"
    /\ result.frame.columns = <<"b", "c", "a", "d">>

\* C7: move_col raises an index error and returns no frame whenever
\* from_index or to_index is outside 0 <= index < column_count: negative
\* indices do not wrap around and a to_index past the end is not clamped.
C7_OutOfRangeRaises ==
    (call.op = "move_col" /\ ~(InRange(call.from, df) /\ InRange(call.to, df))) =>
        (result.kind = "error" /\ result.error = "IndexError")

ReversedMove ==
    /\ call.op = "move_col"
    /\ prev.call.op = "move_col"
    /\ InRange(prev.call.from, prev.df)
    /\ InRange(prev.call.to, prev.df)
    /\ prev.call.from # prev.call.to
    /\ call.from = prev.call.to
    /\ call.to = prev.call.from

\* C8: moving a column from i to j and then, on the returned frame, from j
\* back to i (i # j, both in range) returns a frame with the column order
\* and the data of the first input.
C8_MoveReversal ==
    ReversedMove => (result.kind = "frame" /\ result.frame = prev.df)

C8_Witness ==
    /\ ReversedMove
    /\ prev.call.from = 0
    /\ prev.call.to = 3
    /\ df.columns # prev.df.columns
    /\ result.kind = "frame"
    /\ result.frame.columns = prev.df.columns

Mapped(t) ==
    LET from == call.map_from.names
        f == call.mapping.table
    IN  IF call.mapping.kind = "dict" THEN [r \in 1..Height(df) |-> IF df.data[from[1]][r] \in DOMAIN f THEN f[df.data[from[1]][r]] ELSE call.default]
        ELSE IF call.map_from.kind = "list" THEN [r \in 1..Height(df) |-> f[[j \in 1..Len(from) |-> df.data[from[j]][r]]]]
        ELSE IF call.map_to.kind = "str" THEN [r \in 1..Height(df) |-> f[df.data[from[1]][r]]]
        ELSE [r \in 1..Height(df) |-> f[df.data[from[1]][r]][LastIndexOf(call.map_to.names, t)]]

\* C10: whenever map_col returns a frame, a target name that names an
\* existing column (the source included) adds no column and that column's
\* values are the mapped values; the output has one more column per
\* distinct new target name; for a name repeated in a 1->N map_to the
\* values of its last occurrence win.
C10_TargetCollision ==
    (call.op = "map_col" /\ result.kind = "frame") =>
        LET T == Range(call.map_to.names)
        IN  /\ Len(result.frame.columns) = Len(df.columns) + Cardinality(T \ Range(df.columns))
            /\ IsInjective(result.frame.columns)
            /\ (T \subseteq Range(df.columns)) => result.frame.columns = df.columns
            /\ \A t \in T : t \in Range(result.frame.columns) /\ result.frame.data[t] = Mapped(t)

C10_Witness ==
    /\ OneToNCase
    /\ result.kind = "frame"
    /\ Len(call.map_to.names) = 2
    /\ call.map_to.names[1] = call.map_to.names[2]
    /\ call.map_to.names[1] = call.map_from.names[1]
    /\ Height(df) = 2
    /\ Len(result.frame.columns) = Len(df.columns)
    /\ \A r \in 1..2 : result.frame.data[call.map_from.names[1]][r] = OneToNResult(r)[2]
====
